---- MODULE Spec2Model ----
(***************************************************************************)
(* Booking slot reservation of the sports-facility booking platform:       *)
(* the reservation handler (POST /api/bookings), the payment handlers      *)
(* (create-payment-intent, payment callback, Stripe webhook), the user     *)
(* cancellation handler and the completion sweep, over the Booking and     *)
(* Payment tables they share.                                              *)
(*                                                                         *)
(* Times are minutes since 00:00 of day 0 (local time).  A handler that    *)
(* awaits the store several times is a process whose steps are its store   *)
(* operations; a transaction's writes are buffered and become visible at   *)
(* its commit.                                                             *)
(***************************************************************************)
EXTENDS Integers, Sequences, FiniteSets, TLC

(***************************************************************************)
(* Bounds of the model.                                                    *)
(***************************************************************************)
\* number of reservation requests (concurrent request-handling units)
NProcs == 2

\* number of PaymentIntents the payment provider is asked to create
MaxIntents == 1

\* the same number where a booking's intent is created anew
MaxIntentsRenewed == 2

(***************************************************************************)
(* Fixed data: users, courts, venues.                                      *)
(***************************************************************************)
Procs == 1..NProcs

\* ids the provider gives its intents
IntentIds == 1..MaxIntents

RenewedIntentIds == 1..MaxIntentsRenewed

\* token.id of the session that issues request p
UserOf(p) == ((p - 1) % 2) + 1

\* Court rows: 1 belongs to an approved venue, 2 to a venue awaiting approval
Courts == {1, 2}

openTime(c) == 6

closeTime(c) == 22

VenueApproved(c) == c = 1

Users == {1, 2}

\* the court whose row the owner edits
EditedCourts == {1}

\* prices (rupees per hour) an owner moves a court to; courts start at 500
Prices == {600}

\* Idempotency-Key header values; NoKey is the absent header
NoKey == "none"

Keys == {"k1"}

\* request bodies {courtId, startTime, duration} offered to reserve (one date);
\* no Court row has id 3
Requests ==
    {[courtId |-> 1, startTime |-> s[1], duration |-> s[2]] :
        s \in {<<10, 2>>, <<11, 2>>, <<21, 1>>, <<22, 1>>, <<5, 1>>, <<21, 4>>}}
    \cup {[courtId |-> 2, startTime |-> 10, duration |-> 2],
          [courtId |-> 3, startTime |-> 10, duration |-> 2]}

\* the requests offered while the payment handlers run as well
LifeRequests == {r \in Requests : r.courtId = 1 /\ r.duration = 2}

\* the request offered while every request body of the payment callback is
PaidRequests == {r \in LifeRequests : r.startTime = 10}

\* request bodies of every kind of duration: absent or 0, negative, 1, 8, 9
DurationRequests ==
    {[courtId |-> 1, startTime |-> 10, duration |-> d] : d \in {0, 0 - 1, 1, 8, 9}}

\* the requests offered while the availability grid is read: one inside a
\* day, one that starts at 23:00 and ends at 07:00 of the next day
AvailabilityRequests ==
    {[courtId |-> 1, startTime |-> 10, duration |-> 2],
     [courtId |-> 1, startTime |-> 23, duration |-> 8]}

\* the same, and the first hour of the next day
HintRequests ==
    AvailabilityRequests
    \cup {[courtId |-> 1, date |-> 1, startTime |-> 6, duration |-> 1]}

\* the date parameters of the availability endpoint: day 0 and the day after
Dates == {0, 1}

\* the ranges [10,11), [11,12), [10,12), [9,11) and [9,12) on court 1
ConflictRequests ==
    {[courtId |-> 1, startTime |-> s[1], duration |-> s[2]] :
        s \in {<<10, 1>>, <<11, 1>>, <<10, 2>>, <<9, 2>>, <<9, 3>>}}

\* requests that break several preconditions at once: no such court, an
\* unapproved venue's court out of hours, an approved venue's court out of
\* hours; and one that breaks none
OrderRequests ==
    {[courtId |-> 3, startTime |-> 5, duration |-> 1],
     [courtId |-> 2, startTime |-> 5, duration |-> 1],
     [courtId |-> 1, startTime |-> 5, duration |-> 1],
     [courtId |-> 1, startTime |-> 10, duration |-> 1]}

\* the requests offered while cancellations run: at 07:00 the first starts
\* in exactly 2 hours, the second in 3 hours
CancelRequests ==
    {[courtId |-> 1, startTime |-> h, duration |-> 1] : h \in {9, 10}}

\* the instants (minutes) the clock is read at: 07:00, 15:00
Times == {420, 900}

NoReq == [courtId |-> 0, startTime |-> 0, duration |-> 0]

NoRow == [none |-> TRUE]

NoResult == [status |-> 0, error |-> "", booking |-> 0]

VARIABLES
    bookings,      \* Booking table: sequence of rows, a row's id is its index
    payments,      \* Payment table: sequence of rows, a row's id is its index
    pricePerHour,  \* Court.pricePerHour, per court
    rpc,           \* reserve request p: position in the handler
    rreq,          \* reserve request p: body of the request
    rkey,          \* reserve request p: Idempotency-Key header
    rsnap,         \* reserve request p: number of Booking rows in its snapshot
    rbuf,          \* reserve request p: rows written inside its open transaction
    rres,          \* reserve request p: response
    intents,       \* the provider's PaymentIntents: sequence, an intent's id is its index
    now,           \* the clock (new Date())
    cpi,           \* the create-payment-intent request in flight
    cb,            \* the payment-callback request in flight
    cn,            \* the cancellation request in flight
    sw,            \* the status-update (sweep) request in flight
    av             \* the availability request in flight

rvars == <<rpc, rreq, rkey, rsnap, rbuf, rres>>

hvars == <<cpi, cb, cn, sw, av>>

vars == <<bookings, payments, pricePerHour, rpc, rreq, rkey, rsnap, rbuf, rres,
          intents, now, cpi, cb, cn, sw, av>>

Idle == [pc |-> "idle"]

(***************************************************************************)
(* Time-range arithmetic of the reservation handler.                       *)
(***************************************************************************)
\* Date.getHours() of a time in minutes
getHours(t) == (t \div 60) % 24

\* setHours(0, 0, 0, 0) of a date (a day number), in minutes
startOfDay(d) == d * 24 * 60

\* the date of a request body: day 0 where the body is written without one
dateOf(req) == IF "date" \in DOMAIN req THEN req.date ELSE 0

\* new Date(`${date}T${startTime}:00:00`)
bookingStartTime(req) == startOfDay(dateOf(req)) + req.startTime * 60

\* setHours(getHours() + duration): the Date normalises past midnight
bookingEndTime(req) == bookingStartTime(req) + req.duration * 60

ActiveStatuses == {"PENDING", "CONFIRMED"}

\* the filter without its status test
ConflictsWithAnyStatus(b, c, st, en) ==
    /\ b.courtId = c
    /\ b.startTime < en
    /\ b.endTime > st

\* the findFirst filter of the conflict query, on one Booking row
ConflictsWith(b, c, st, en) ==
    /\ b.courtId = c
    /\ b.startTime < en
    /\ b.endTime > st
    /\ b.status \in ActiveStatuses

\* tx.booking.findFirst over the rows the transaction's snapshot holds
conflictingBooking(rows, c, st, en) ==
    \E i \in 1..Len(rows) : ConflictsWith(rows[i], c, st, en)

\* the operating-hours test, on the hour fields of start and end
OutsideOperatingHours(c, st, en) ==
    LET slotStartHour == getHours(st)
        slotEndHour == getHours(en)
    IN  slotStartHour < openTime(c) \/ slotEndHour > closeTime(c)

\* Number(court.pricePerHour) * duration * 100
\* the amount left in rupees (the conversion to paisa dropped)
totalAmountInRupees(price, duration) == price * duration

totalAmount(price, duration) == price * duration * 100

\* idempotencyKey || `${token.id}-${Date.now()}-${Math.random()}`
StoredKey(p) ==
    IF rkey[p] # NoKey THEN [client |-> rkey[p], auto |-> 0]
    ELSE [client |-> NoKey, auto |-> p]

\* prisma.booking.findUnique({ where: { idempotencyKey } }): id of the row or 0
FindByKey(rows, key) ==
    IF \E i \in 1..Len(rows) : rows[i].idempotencyKey = key
    THEN CHOOSE i \in 1..Len(rows) : rows[i].idempotencyKey = key
    ELSE 0

\* the lookup skipped, as when no Idempotency-Key header is sent
existingBookingNotLookedUp(k) == 0

\* existingBooking of the handler: the row holding the header's key, or 0
existingBooking(k) ==
    IF k # NoKey THEN FindByKey(bookings, [client |-> k, auto |-> 0]) ELSE 0

\* !courtId || !date || startTime === undefined || !duration
MissingRequired(req) == req.courtId = 0 \/ req.duration = 0

Respond(st, err, b) == [status |-> st, error |-> err, booking |-> b]

(***************************************************************************)
(* Init                                                                    *)
(***************************************************************************)
Init ==
    /\ bookings = <<>>
    /\ payments = <<>>
    /\ pricePerHour = [c \in Courts |-> 500]
    /\ rpc = [p \in Procs |-> "idle"]
    /\ rreq = [p \in Procs |-> NoReq]
    /\ rkey = [p \in Procs |-> NoKey]
    /\ rsnap = [p \in Procs |-> 0]
    /\ rbuf = [p \in Procs |-> NoRow]
    /\ rres = [p \in Procs |-> NoResult]
    /\ intents = <<>>
    /\ now = 420
    /\ cpi = Idle
    /\ cb = Idle
    /\ cn = Idle
    /\ sw = Idle
    /\ av = Idle

\* the handler returns: its transaction's locals are dropped, its response is
\* kept (and the key of the request it answered)
Finish(p, res) ==
    /\ rpc' = [rpc EXCEPT ![p] = "done"]
    /\ rreq' = [rreq EXCEPT ![p] = NoReq]
    /\ UNCHANGED rkey
    /\ rsnap' = [rsnap EXCEPT ![p] = 0]
    /\ rbuf' = [rbuf EXCEPT ![p] = NoRow]
    /\ rres' = [rres EXCEPT ![p] = res]

(***************************************************************************)
(* POST /api/bookings, up to the idempotency lookup (before the            *)
(* transaction opens).                                                     *)
(***************************************************************************)
ReserveLookup(p, reqs, keys) ==
    /\ rpc[p] = "idle"
    /\ \E req \in reqs, k \in keys :
        IF MissingRequired(req)
        THEN /\ rpc' = [rpc EXCEPT ![p] = "done"]
             /\ rkey' = [rkey EXCEPT ![p] = k]
             /\ rres' = [rres EXCEPT ![p] =
                    Respond(400, "Missing required booking information", 0)]
             /\ UNCHANGED <<rreq, rsnap, rbuf>>
        ELSE IF existingBooking(k) # 0
        THEN /\ rpc' = [rpc EXCEPT ![p] = "done"]
             /\ rkey' = [rkey EXCEPT ![p] = k]
             /\ rreq' = [rreq EXCEPT ![p] = req]
             /\ rres' = [rres EXCEPT ![p] =
                    Respond(200, "Booking already exists", existingBooking(k))]
             /\ UNCHANGED <<rsnap, rbuf>>
        ELSE /\ rpc' = [rpc EXCEPT ![p] = "tx"]
             /\ rreq' = [rreq EXCEPT ![p] = req]
             /\ rkey' = [rkey EXCEPT ![p] = k]
             /\ UNCHANGED <<rsnap, rbuf, rres>>
    /\ UNCHANGED <<bookings, payments, pricePerHour, intents, now, hvars>>

(***************************************************************************)
(* The body of prisma.$transaction under Serializable isolation: every     *)
(* read sees the snapshot taken here; a thrown Error rolls back; the two   *)
(* creates and the update are buffered until the commit.                   *)
(***************************************************************************)
ReserveTxBody(p) ==
    /\ rpc[p] = "tx"
    /\ LET req == rreq[p]
           c == req.courtId
           st == bookingStartTime(req)
           en == bookingEndTime(req)
       IN  IF c \notin Courts
           THEN Finish(p, Respond(500, "Court not found", 0))
           ELSE IF conflictingBooking(bookings, c, st, en)
           THEN Finish(p, Respond(409, "Time slot conflict", 0))
           ELSE IF ~VenueApproved(c)
           THEN Finish(p, Respond(500, "Venue is not approved for bookings", 0))
           ELSE IF OutsideOperatingHours(c, st, en)
           THEN Finish(p, Respond(500, "Booking time is outside court operating hours", 0))
           ELSE /\ rpc' = [rpc EXCEPT ![p] = "written"]
                /\ rsnap' = [rsnap EXCEPT ![p] = Len(bookings)]
                /\ rbuf' = [rbuf EXCEPT ![p] =
                       [booking |-> [userId |-> UserOf(p), courtId |-> c,
                                     startTime |-> st, endTime |-> en,
                                     status |-> "PENDING",
                                     idempotencyKey |-> StoredKey(p)],
                        payment |-> [amount |-> totalAmount(pricePerHour[c], req.duration),
                                     status |-> "PENDING",
                                     stripePaymentIntentId |-> 0]]]
                /\ UNCHANGED <<rreq, rkey, rres>>
    /\ UNCHANGED <<bookings, payments, pricePerHour, intents, now, hvars>>

\* a Booking row committed since the snapshot that the conflict query would match
ReadWriteConflict(p) ==
    \E i \in (rsnap[p] + 1)..Len(bookings) :
        /\ bookings[i].courtId = rbuf[p].booking.courtId
        /\ bookings[i].startTime < rbuf[p].booking.endTime
        /\ bookings[i].endTime > rbuf[p].booking.startTime

\* a committed Booking row holds the key this transaction inserts
UniqueViolation(p) ==
    FindByKey(bookings, rbuf[p].booking.idempotencyKey) # 0

\* the rows the commit makes visible: Booking, its Payment, and the paymentId link
CommitRows(p) ==
    /\ bookings' = Append(bookings,
           [rbuf[p].booking EXCEPT !.status = "PENDING"] @@
           [paymentId |-> Len(payments) + 1])
    /\ payments' = Append(payments,
           rbuf[p].payment @@ [bookingId |-> Len(bookings) + 1])

\* the Booking insert kept although the transaction did not commit
RollbackKeepsBooking(p) ==
    /\ bookings' = Append(bookings, rbuf[p].booking @@ [paymentId |-> 0])
    /\ UNCHANGED payments

\* a transaction that ends without committing leaves the tables as they are
Rollback(p) == UNCHANGED <<bookings, payments>>

(***************************************************************************)
(* Commit of the reservation transaction.  The store refuses it when the   *)
(* idempotency key is taken (P2002, "Unique constraint") or when a         *)
(* concurrent serializable transaction committed a row its conflict query  *)
(* would have read (P2034); predicate locks are coarse, so the store may   *)
(* also refuse it whenever any concurrent reservation committed.           *)
(***************************************************************************)
ReserveCommit(p) ==
    /\ rpc[p] = "written"
    /\ \E spurious \in BOOLEAN :
        IF UniqueViolation(p)
        THEN /\ Rollback(p)
             /\ \/ Finish(p, Respond(409, "Unique constraint", 0))
                \/ /\ ReadWriteConflict(p)
                   /\ Finish(p, Respond(500, "write conflict or deadlock", 0))
        ELSE IF ReadWriteConflict(p) \/ (spurious /\ rsnap[p] < Len(bookings))
        THEN /\ Rollback(p)
             /\ Finish(p, Respond(500, "write conflict or deadlock", 0))
        ELSE /\ CommitRows(p)
             /\ Finish(p, Respond(200, "", Len(bookings) + 1))
    /\ UNCHANGED <<pricePerHour, intents, now, hvars>>

\* the transaction exceeds its 10 s timeout: rolled back, answered 408
ReserveTimeout(p) ==
    /\ rpc[p] = "written"
    /\ Rollback(p)
    /\ Finish(p, Respond(408, "timeout", 0))
    /\ UNCHANGED <<pricePerHour, intents, now, hvars>>

(***************************************************************************)
(* PUT /api/owner/venues/[id]: the owner rewrites a court's price.         *)
(***************************************************************************)
OwnerUpdateCourt(c) ==
    /\ \E price \in Prices \ {pricePerHour[c]} :
        pricePerHour' = [pricePerHour EXCEPT ![c] = price]
    /\ UNCHANGED <<bookings, payments, rvars, intents, now, hvars>>

(***************************************************************************)
(* Row updates shared by the payment handlers.                             *)
(***************************************************************************)
SetBookingStatus(rows, b, st) == [rows EXCEPT ![b].status = st]

SetPaymentStatus(rows, pid, st) == [rows EXCEPT ![pid].status = st]

\* booking.Payment: id of the Payment row whose bookingId is b, or 0
PaymentOf(b) ==
    IF \E i \in 1..Len(payments) : payments[i].bookingId = b
    THEN CHOOSE i \in 1..Len(payments) : payments[i].bookingId = b
    ELSE 0

\* the Payment row whose stripePaymentIntentId is i, or 0
PaymentByIntent(i) ==
    IF \E k \in 1..Len(payments) : payments[k].stripePaymentIntentId = i
    THEN CHOOSE k \in 1..Len(payments) : payments[k].stripePaymentIntentId = i
    ELSE 0

(***************************************************************************)
(* POST /api/create-payment-intent.  First await: the booking with its     *)
(* payment and its court's price; the amount is computed from them.        *)
(***************************************************************************)
\* Math.round(Number(pricePerHour) * durationInHours * 100)
IntentAmount(b) ==
    LET durationInHours == (bookings[b].endTime - bookings[b].startTime) \div 60
    IN  pricePerHour[bookings[b].courtId] * durationInHours * 100

CreatePaymentIntentRead(b, max) ==
    /\ cpi.pc = "idle"
    /\ b <= Len(bookings)
    /\ PaymentOf(b) # 0
    /\ payments[PaymentOf(b)].status # "SUCCEEDED"
    /\ Len(intents) < max
    /\ cpi' = [pc |-> "read", booking |-> b, payment |-> PaymentOf(b),
               amount |-> IntentAmount(b)]
    /\ UNCHANGED <<bookings, payments, pricePerHour, rvars, intents, now, cb, cn, sw, av>>

\* the amount create-payment-intent stores in the Payment row
StoredAmount(pid, amount) == amount

(***************************************************************************)
(* Second and third await: stripe.paymentIntents.create, then the update   *)
(* of the Payment row read before.                                         *)
(***************************************************************************)
CreatePaymentIntentWrite(max) ==
    /\ cpi.pc = "read"
    /\ Len(intents) < max
    /\ intents' = Append(intents, [bookingId |-> cpi.booking, status |-> "open",
                                   failed |-> FALSE, refunded |-> FALSE])
    /\ payments' = [payments EXCEPT
           ![cpi.payment].stripePaymentIntentId = Len(intents) + 1,
           ![cpi.payment].amount = StoredAmount(cpi.payment, cpi.amount),
           ![cpi.payment].status = "PENDING"]
    /\ cpi' = Idle
    /\ UNCHANGED <<bookings, pricePerHour, rvars, now, cb, cn, sw, av>>

(***************************************************************************)
(* The payment provider: the customer's attempts on an intent, and a       *)
(* refund of its charge.  Each emits the webhook event of its kind.        *)
(***************************************************************************)
ProviderFail(i) ==
    /\ i <= Len(intents)
    /\ intents[i].status = "open"
    /\ ~intents[i].failed
    /\ intents' = [intents EXCEPT ![i].failed = TRUE]
    /\ UNCHANGED <<bookings, payments, pricePerHour, rvars, now, hvars>>

ProviderSucceed(i) ==
    /\ i <= Len(intents)
    /\ intents[i].status = "open"
    /\ intents' = [intents EXCEPT ![i].status = "succeeded"]
    /\ UNCHANGED <<bookings, payments, pricePerHour, rvars, now, hvars>>

ProviderCancel(i) ==
    /\ i <= Len(intents)
    /\ intents[i].status = "open"
    /\ intents' = [intents EXCEPT ![i].status = "canceled"]
    /\ UNCHANGED <<bookings, payments, pricePerHour, rvars, now, hvars>>

ProviderRefund(i) ==
    /\ i <= Len(intents)
    /\ intents[i].status = "succeeded"
    /\ ~intents[i].refunded
    /\ intents' = [intents EXCEPT ![i].refunded = TRUE]
    /\ UNCHANGED <<bookings, payments, pricePerHour, rvars, now, hvars>>

\* request bodies' status field
ClientStatuses == {"succeeded", "failed", "canceled", "processing"}

(***************************************************************************)
(* POST /api/bookings/[id]/payment.  The request body is parsed (status,   *)
(* paymentIntentId), then the first await: the booking of the session's    *)
(* user with its payment.                                                  *)
(***************************************************************************)
PaymentCallbackRead(b, u, statuses, ids) ==
    /\ cb.pc = "idle"
    /\ b <= Len(bookings)
    /\ bookings[b].userId = u
    /\ PaymentOf(b) # 0
    /\ payments[PaymentOf(b)].status # "SUCCEEDED"
    /\ \E status \in statuses, paymentIntentId \in ids \cup {0} :
        cb' = [pc |-> "read", booking |-> b, payment |-> PaymentOf(b),
               status |-> status, paymentIntentId |-> paymentIntentId,
               response |-> 0]
    /\ UNCHANGED <<bookings, payments, pricePerHour, rvars, intents, now, cpi, cn, sw, av>>

\* the booking status left as the request body's status set it
CallbackBookingStatusFromClient(status, providerStatus) ==
    IF status = "succeeded" THEN "CONFIRMED" ELSE "CANCELLED"

\* the statuses the callback writes: set from the request body's status, then
\* overwritten from the status of the intent retrieved from the provider
CallbackPaymentStatus(status, providerStatus) ==
    LET fromClient == IF status = "succeeded" THEN "SUCCEEDED" ELSE "FAILED"
    IN  IF providerStatus = "succeeded" THEN "SUCCEEDED"
        ELSE IF providerStatus = "canceled" THEN "FAILED"
        ELSE "PENDING"

CallbackBookingStatus(status, providerStatus) ==
    LET fromClient == IF status = "succeeded" THEN "CONFIRMED" ELSE "CANCELLED"
    IN  IF providerStatus = "succeeded" THEN "CONFIRMED"
        ELSE IF providerStatus = "canceled" THEN "CANCELLED"
        ELSE "PENDING"

(***************************************************************************)
(* The callback's transaction: the client's status is validated, the       *)
(* intent named by the client is retrieved from the provider (id 0 is an   *)
(* id the provider does not know), and the Payment and Booking rows read   *)
(* before are overwritten.  A thrown Error, or an intent id that another   *)
(* Payment row holds, rolls the transaction back; the catch block maps it  *)
(* to 400, 503 or 500.                                                     *)
(***************************************************************************)
PaymentCallbackTx ==
    /\ cb.pc = "read"
    /\ LET status == cb.status
           paymentIntentId == cb.paymentIntentId
           taken == PaymentByIntent(paymentIntentId)
           answer(code) == cb' = [cb EXCEPT !.pc = "done", !.response = code]
       IN  IF status \notin {"succeeded", "failed", "canceled"}
           THEN answer(400) /\ UNCHANGED <<bookings, payments>>
           ELSE IF paymentIntentId \notin 1..Len(intents)
           THEN answer(503) /\ UNCHANGED <<bookings, payments>>
           ELSE IF taken # 0 /\ taken # cb.payment
           THEN answer(500) /\ UNCHANGED <<bookings, payments>>
           ELSE /\ payments' = [payments EXCEPT
                       ![cb.payment].status =
                           CallbackPaymentStatus(status, intents[paymentIntentId].status),
                       ![cb.payment].stripePaymentIntentId = paymentIntentId]
                /\ bookings' = SetBookingStatus(bookings, cb.booking,
                       CallbackBookingStatus(status, intents[paymentIntentId].status))
                /\ answer(200)
    /\ UNCHANGED <<pricePerHour, rvars, intents, now, cpi, cn, sw, av>>

\* the response is sent and the request's locals are dropped
PaymentCallbackReturn ==
    /\ cb.pc = "done"
    /\ cb' = Idle
    /\ UNCHANGED <<bookings, payments, pricePerHour, rvars, intents, now, cpi, cn, sw, av>>

(***************************************************************************)
(* POST of the Stripe webhook.  An event is delivered at least once, in no *)
(* guaranteed order, once the provider has emitted it.  An update whose    *)
(* where clause matches no Payment row throws, and the handler answers 500 *)
(* with nothing written.                                                   *)
(***************************************************************************)
\* the booking status written on payment_intent.succeeded
WebhookSucceededStatus(current) == "CONFIRMED"

\* the booking status written on payment_intent.payment_failed / canceled
WebhookFailedStatus(current) == "CANCELLED"

WebhookSucceeded(i) ==
    /\ i <= Len(intents)
    /\ intents[i].status = "succeeded"
    /\ LET pid == PaymentByIntent(i)
       IN  /\ pid # 0
           /\ payments' = SetPaymentStatus(payments, pid, "SUCCEEDED")
           /\ bookings' = SetBookingStatus(bookings, payments[pid].bookingId,
                  WebhookSucceededStatus(bookings[payments[pid].bookingId].status))
    /\ UNCHANGED <<pricePerHour, rvars, intents, now, hvars>>

WebhookFailed(i) ==
    /\ i <= Len(intents)
    /\ intents[i].failed \/ intents[i].status = "canceled"
    /\ LET pid == PaymentByIntent(i)
       IN  /\ pid # 0
           /\ payments' = SetPaymentStatus(payments, pid, "FAILED")
           /\ bookings' = SetBookingStatus(bookings, payments[pid].bookingId,
                  WebhookFailedStatus(bookings[payments[pid].bookingId].status))
    /\ UNCHANGED <<pricePerHour, rvars, intents, now, hvars>>

WebhookRefunded(i) ==
    /\ i <= Len(intents)
    /\ intents[i].refunded
    /\ LET pid == PaymentByIntent(i)
       IN  /\ pid # 0
           /\ payments' = SetPaymentStatus(payments, pid, "REFUNDED")
    /\ UNCHANGED <<bookings, pricePerHour, rvars, intents, now, hvars>>

(***************************************************************************)
(* POST of the cancellation handler: three awaits, no transaction.         *)
(***************************************************************************)
\* now + 2 h
minCancellationTime == now + 2 * 60

CancelRead(b, u) ==
    /\ cn.pc = "idle"
    /\ b <= Len(bookings)
    /\ bookings[b].userId = u
    /\ bookings[b].status \notin {"CANCELLED", "COMPLETED"}
    /\ ~(bookings[b].startTime < minCancellationTime)
    /\ cn' = [pc |-> "read", booking |-> b, payment |-> PaymentOf(b),
              paymentStatus |-> IF PaymentOf(b) # 0
                                THEN payments[PaymentOf(b)].status ELSE "none"]
    /\ UNCHANGED <<bookings, payments, pricePerHour, rvars, intents, now, cpi, cb, sw, av>>

CancelUpdateBooking ==
    /\ cn.pc = "read"
    /\ bookings' = SetBookingStatus(bookings, cn.booking, "CANCELLED")
    /\ cn' = IF cn.paymentStatus = "SUCCEEDED"
             THEN [cn EXCEPT !.pc = "booking_updated"]
             ELSE Idle
    /\ UNCHANGED <<payments, pricePerHour, rvars, intents, now, cpi, cb, sw, av>>

CancelUpdatePayment ==
    /\ cn.pc = "booking_updated"
    /\ payments' = SetPaymentStatus(payments, cn.payment, "REFUNDED")
    /\ cn' = Idle
    /\ UNCHANGED <<bookings, pricePerHour, rvars, intents, now, cpi, cb, sw, av>>

(***************************************************************************)
(* POST of the status-update endpoint (the completion sweep).              *)
(***************************************************************************)
\* the where clause without its status filter
SweepMatchesAnyStatus(b, t) == b.endTime < t

\* the where clause of updateMany, on one Booking row at time t
SweepMatches(b, t) == b.status = "CONFIRMED" /\ b.endTime < t

\* the sweep's update left out: no row is changed
SweepRowUntouched(b, t) == b

SweepRow(b, t) ==
    IF SweepMatches(b, t) THEN [b EXCEPT !.status = "COMPLETED"] ELSE b

\* the Booking table after updateMany at time t
SweptRows(rows, t) == [i \in 1..Len(rows) |-> SweepRow(rows[i], t)]

\* updatedBookings.count
SweepCount(rows, t) ==
    Cardinality({i \in 1..Len(rows) : SweepMatches(rows[i], t)})

\* one run of the endpoint, called when it has counts' number of rows to update
Sweep(counts) ==
    /\ sw.pc = "idle"
    /\ SweepCount(bookings, now) \in counts
    /\ bookings' = SweptRows(bookings, now)
    /\ sw' = [pc |-> "done", updatedCount |-> SweepCount(bookings, now)]
    /\ UNCHANGED <<payments, pricePerHour, rvars, intents, now, cpi, cb, cn, av>>

\* the response is sent
SweepReturn ==
    /\ sw.pc = "done"
    /\ sw' = Idle
    /\ UNCHANGED <<bookings, payments, pricePerHour, rvars, intents, now, cpi, cb, cn, av>>

(***************************************************************************)
(* GET /api/bookings/availability.  Dates are day numbers; the date        *)
(* parameter and the stored times are read in the same (server) time zone. *)
(***************************************************************************)
\* prisma.booking.findMany: the court's bookings that start on the date with
\* status PENDING, CONFIRMED or COMPLETED (ids of the rows)
existingBookings(c, d) ==
    {i \in 1..Len(bookings) :
        /\ bookings[i].courtId = c
        /\ bookings[i].startTime >= startOfDay(d)
        /\ bookings[i].startTime < startOfDay(d) + 24 * 60
        /\ bookings[i].status \in {"PENDING", "CONFIRMED", "COMPLETED"}}

\* one element of timeSlots
timeSlot(c, d, hour) ==
    LET slotStart == startOfDay(d) + hour * 60
        slotEnd == startOfDay(d) + (hour + 1) * 60
        isToday == now \div (24 * 60) = d
        currentHour == getHours(now)
        isPast == isToday /\ hour <= currentHour
        hasConflict == \E i \in existingBookings(c, d) :
                          slotStart < bookings[i].endTime
                          /\ slotEnd > bookings[i].startTime
    IN  [hour |-> hour, available |-> ~isPast /\ ~hasConflict,
         isPast |-> isPast, hasConflict |-> hasConflict]

\* the loop from court.openTime up to court.closeTime
timeSlots(c, d) ==
    [k \in 1..(closeTime(c) - openTime(c)) |-> timeSlot(c, d, openTime(c) + k - 1)]

GetAvailability(c, d) ==
    /\ av.pc = "idle"
    /\ av' = IF c \notin Courts \/ ~VenueApproved(c)
             THEN [pc |-> "done", status |-> 404, courtId |-> c, date |-> d,
                   timeSlots |-> <<>>]
             ELSE [pc |-> "done", status |-> 200, courtId |-> c, date |-> d,
                   timeSlots |-> timeSlots(c, d)]
    /\ UNCHANGED <<bookings, payments, pricePerHour, rvars, intents, now, cpi, cb, cn, sw>>

\* the response is sent
AvailabilityReturn ==
    /\ av.pc = "done"
    /\ av' = Idle
    /\ UNCHANGED <<bookings, payments, pricePerHour, rvars, intents, now, cpi, cb, cn, sw>>

\* time passes
Tick ==
    /\ \E t \in Times : t > now /\ now' = t
    /\ UNCHANGED <<bookings, payments, pricePerHour, rvars, intents, hvars>>

NextReserve ==
    \/ \E p \in Procs : ReserveLookup(p, Requests, Keys \cup {NoKey})
    \/ \E p \in Procs : ReserveTxBody(p)
    \/ \E p \in Procs : ReserveCommit(p)
    \/ \E p \in Procs : ReserveTimeout(p)
    \/ \E c \in EditedCourts : OwnerUpdateCourt(c)

\* the reservation handler alone, over every request of Requests
SpecReserve == Init /\ [][NextReserve]_vars

Next ==
    \/ \E p \in Procs : ReserveLookup(p, LifeRequests, {NoKey})
    \/ \E p \in Procs : ReserveTxBody(p)
    \/ \E p \in Procs : ReserveCommit(p)
    \/ \E p \in Procs : ReserveTimeout(p)
    \/ \E c \in EditedCourts : OwnerUpdateCourt(c)
    \/ \E b \in Procs : CreatePaymentIntentRead(b, MaxIntents)
    \/ CreatePaymentIntentWrite(MaxIntents)
    \/ \E i \in IntentIds : ProviderFail(i)
    \/ \E i \in IntentIds : ProviderSucceed(i)
    \/ \E i \in IntentIds : ProviderCancel(i)
    \/ \E i \in IntentIds : ProviderRefund(i)
    \/ \E b \in Procs, u \in Users : PaymentCallbackRead(b, u, {"succeeded"}, IntentIds)
    \/ PaymentCallbackTx
    \/ PaymentCallbackReturn
    \/ \E i \in IntentIds : WebhookSucceeded(i)
    \/ \E i \in IntentIds : WebhookFailed(i)
    \/ \E i \in IntentIds : WebhookRefunded(i)
    \/ \E b \in Procs, u \in Users : CancelRead(b, u)
    \/ CancelUpdateBooking
    \/ CancelUpdatePayment
    \/ Sweep(1..NProcs)
    \/ SweepReturn
    \/ Tick

\* every handler, over the requests of LifeRequests
Spec == Init /\ [][Next]_vars

NextDuration ==
    \/ \E p \in Procs : ReserveLookup(p, DurationRequests, {NoKey})
    \/ \E p \in Procs : ReserveTxBody(p)
    \/ \E p \in Procs : ReserveCommit(p)
    \/ \E p \in Procs : ReserveTimeout(p)

\* the reservation handler over durations inside and outside 1..8
SpecDuration == Init /\ [][NextDuration]_vars

NextAvailability ==
    \/ \E p \in Procs : ReserveLookup(p, AvailabilityRequests, {NoKey})
    \/ \E p \in Procs : ReserveTxBody(p)
    \/ \E p \in Procs : ReserveCommit(p)
    \/ \E b \in Procs, u \in Users : CancelRead(b, u)
    \/ CancelUpdateBooking
    \/ \E c \in Courts, d \in Dates : GetAvailability(c, d)
    \/ AvailabilityReturn
    \/ Tick

\* reservation and cancellation of bookings, with the availability grid read
\* at any time
SpecAvailability == Init /\ [][NextAvailability]_vars

NextConflict ==
    \/ \E p \in Procs : ReserveLookup(p, ConflictRequests, {NoKey})
    \/ \E p \in Procs : ReserveTxBody(p)
    \/ \E p \in Procs : ReserveCommit(p)
    \/ \E b \in Procs : CreatePaymentIntentRead(b, MaxIntents)
    \/ CreatePaymentIntentWrite(MaxIntents)
    \/ \E i \in IntentIds : ProviderSucceed(i)
    \/ \E i \in IntentIds : WebhookSucceeded(i)
    \/ \E i \in IntentIds : ProviderCancel(i)
    \/ \E i \in IntentIds : WebhookFailed(i)
    \/ Sweep(1..NProcs)
    \/ SweepReturn
    \/ Tick

\* reservations of overlapping and adjacent ranges on one court, among
\* bookings of every status
SpecConflict == Init /\ [][NextConflict]_vars

NextOrder ==
    \/ \E p \in Procs : ReserveLookup(p, OrderRequests, Keys \cup {NoKey})
    \/ \E p \in Procs : ReserveTxBody(p)
    \/ \E p \in Procs : ReserveCommit(p)
    \/ \E p \in Procs : ReserveTimeout(p)

\* the reservation handler over requests that break several preconditions
SpecOrder == Init /\ [][NextOrder]_vars

NextBinding ==
    \/ \E p \in Procs : ReserveLookup(p, CancelRequests, {NoKey})
    \/ \E p \in Procs : ReserveTxBody(p)
    \/ \E p \in Procs : ReserveCommit(p)
    \/ \E b \in Procs : CreatePaymentIntentRead(b, MaxIntentsRenewed)
    \/ CreatePaymentIntentWrite(MaxIntentsRenewed)
    \/ \E i \in RenewedIntentIds : ProviderSucceed(i)
    \/ \E b \in Procs, u \in Users :
           PaymentCallbackRead(b, u, {"succeeded"}, RenewedIntentIds)
    \/ PaymentCallbackTx
    \/ PaymentCallbackReturn

\* reservation and payment of two bookings, a booking's intent created anew
SpecBinding == Init /\ [][NextBinding]_vars

NextLive ==
    \/ \E p \in Procs : ReserveLookup(p, PaidRequests, {NoKey})
    \/ \E p \in Procs : ReserveTxBody(p)
    \/ \E p \in Procs : ReserveCommit(p)
    \/ \E b \in Procs : CreatePaymentIntentRead(b, MaxIntents)
    \/ CreatePaymentIntentWrite(MaxIntents)
    \/ \E i \in IntentIds : ProviderSucceed(i)
    \/ \E i \in IntentIds : ProviderCancel(i)
    \/ \E i \in IntentIds : WebhookSucceeded(i)
    \/ \E i \in IntentIds : WebhookFailed(i)
    \/ Sweep(1..NProcs)
    \/ SweepReturn
    \/ Tick

\* what the server, the provider's event delivery, the cron job and the clock
\* do without a client: a request in flight runs to its end, an emitted event
\* is delivered, the sweep is called, time passes.  Whether a client reserves,
\* asks for an intent or pays is left to the client.
FairLive ==
    /\ WF_vars(\E p \in Procs : ReserveTxBody(p))
    /\ WF_vars(\E p \in Procs : ReserveCommit(p))
    /\ WF_vars(CreatePaymentIntentWrite(MaxIntents))
    /\ WF_vars(\E i \in IntentIds : WebhookSucceeded(i))
    /\ WF_vars(\E i \in IntentIds : WebhookFailed(i))
    /\ WF_vars(Sweep(1..NProcs))
    /\ WF_vars(SweepReturn)
    /\ WF_vars(Tick)

\* reservation, payment and sweep under fair scheduling of the provider's
\* events and of the sweep
SpecLive == Init /\ [][NextLive]_vars /\ FairLive

NextHint ==
    \/ \E p \in Procs : ReserveLookup(p, HintRequests, {NoKey})
    \/ \E p \in Procs : ReserveTxBody(p)
    \/ \E p \in Procs : ReserveCommit(p)
    \/ \E c \in Courts, d \in Dates : GetAvailability(c, d)
    \/ AvailabilityReturn

\* reservations on two days, with the availability grid read at any time
SpecHint == Init /\ [][NextHint]_vars

NextSweep ==
    \/ \E p \in Procs : ReserveLookup(p, LifeRequests, {NoKey})
    \/ \E p \in Procs : ReserveTxBody(p)
    \/ \E p \in Procs : ReserveCommit(p)
    \/ \E b \in Procs : CreatePaymentIntentRead(b, MaxIntents)
    \/ CreatePaymentIntentWrite(MaxIntents)
    \/ \E i \in IntentIds : ProviderSucceed(i)
    \/ \E i \in IntentIds : WebhookSucceeded(i)
    \/ \E i \in IntentIds : ProviderCancel(i)
    \/ \E i \in IntentIds : WebhookFailed(i)
    \/ Sweep(0..NProcs)
    \/ SweepReturn
    \/ Tick

\* reservation, payment (succeeding or cancelled) and the completion sweep,
\* the sweep called at any time
SpecSweep == Init /\ [][NextSweep]_vars

NextCancel ==
    \/ \E p \in Procs : ReserveLookup(p, CancelRequests, {NoKey})
    \/ \E p \in Procs : ReserveTxBody(p)
    \/ \E p \in Procs : ReserveCommit(p)
    \/ \E b \in Procs : CreatePaymentIntentRead(b, MaxIntents)
    \/ CreatePaymentIntentWrite(MaxIntents)
    \/ \E i \in IntentIds : ProviderSucceed(i)
    \/ \E i \in IntentIds : WebhookSucceeded(i)
    \/ \E b \in Procs, u \in Users : CancelRead(b, u)
    \/ CancelUpdateBooking
    \/ CancelUpdatePayment
    \/ Tick

\* reservation, payment and cancellation of bookings that start 2 and 3 hours
\* after the first instant of the clock
SpecCancel == Init /\ [][NextCancel]_vars

NextPayment ==
    \/ \E p \in Procs : ReserveLookup(p, PaidRequests, {NoKey})
    \/ \E p \in Procs : ReserveTxBody(p)
    \/ \E p \in Procs : ReserveCommit(p)
    \/ \E b \in Procs : CreatePaymentIntentRead(b, MaxIntents)
    \/ CreatePaymentIntentWrite(MaxIntents)
    \/ \E i \in IntentIds : ProviderSucceed(i)
    \/ \E i \in IntentIds : ProviderCancel(i)
    \/ \E b \in Procs, u \in Users : PaymentCallbackRead(b, u, ClientStatuses, IntentIds)
    \/ PaymentCallbackTx
    \/ PaymentCallbackReturn
    \/ \E i \in IntentIds : WebhookSucceeded(i)

\* reservation and payment of a booking, over every request body of the
\* payment callback
SpecPayment == Init /\ [][NextPayment]_vars

(***************************************************************************)
(* Properties.                                                             *)
(***************************************************************************)
BookingIds == 1..Len(bookings)

PaymentIds == 1..Len(payments)

overlaps(a, b) == a.startTime < b.endTime /\ b.startTime < a.endTime

\* C1: no court has two bookings with status PENDING or CONFIRMED whose
\* [start, end) intervals overlap, in any state reached by any interleaving of
\* the handlers.
NoDoubleBooking ==
    \A i, j \in BookingIds :
        (/\ i # j
         /\ bookings[i].courtId = bookings[j].courtId
         /\ bookings[i].status \in ActiveStatuses
         /\ bookings[j].status \in ActiveStatuses)
        => ~overlaps(bookings[i], bookings[j])

\* request p asks for exactly the court and range that Booking row b holds
SameSlot(p, b) ==
    /\ bookings[b].courtId = rreq[p].courtId
    /\ bookings[b].startTime = bookingStartTime(rreq[p])
    /\ bookings[b].endTime = bookingEndTime(rreq[p])

\* the transaction of p is open and a concurrent call has committed, after p's
\* snapshot, a booking for the identical court and range
LostRace(p) ==
    /\ rpc[p] = "written"
    /\ \E b \in (rsnap[p] + 1)..Len(bookings) : SameSlot(p, b)

\* C2: of the reserve calls that run concurrently for the identical court and
\* range, every one that loses the race is answered Conflict (409), or Timeout
\* (408) when its transaction ran out of time; none is answered with an
\* internal error.
RaceLoserGetsConflict ==
    [][\A p \in Procs :
          (LostRace(p) /\ rpc'[p] = "done") => rres'[p].status \in {409, 408}]_vars

ClientKey(k) == [client |-> k, auto |-> 0]

\* the Booking rows that hold client key k
RowsOfKey(k) == {b \in BookingIds : bookings[b].idempotencyKey = ClientKey(k)}

\* the Payment rows of booking b
PaymentsOf(b) == {i \in PaymentIds : payments[i].bookingId = b}

\* a reserve call that starts with key k when a committed booking holds k
RetryStep(p, k) ==
    /\ rpc[p] = "idle"
    /\ rpc'[p] # "idle"
    /\ rkey'[p] = k
    /\ RowsOfKey(k) # {}

\* C3: a reserve call made after a call with the same idempotency key has
\* committed returns the booking of that key, and there is exactly one Booking
\* row and one Payment row for the key.
IdempotentRetry ==
    /\ [][\A p \in Procs, k \in Keys :
            RetryStep(p, k) =>
                /\ rpc'[p] = "done"
                /\ rres'[p].status = 200
                /\ rres'[p].booking \in RowsOfKey(k)
                /\ bookings' = bookings
                /\ payments' = payments]_vars
    /\ [](\A k \in Keys :
            /\ Cardinality(RowsOfKey(k)) <= 1
            /\ \A b \in RowsOfKey(k) : Cardinality(PaymentsOf(b)) = 1)

\* a retried call has been answered with the booking of its key
IdempotentRetryWitness ==
    \E p \in Procs :
        /\ rpc[p] = "done"
        /\ rres[p].error = "Booking already exists"
        /\ rkey[p] \in Keys
        /\ rres[p].booking \in RowsOfKey(rkey[p])
        /\ Cardinality(PaymentsOf(rres[p].booking)) = 1

\* call p passed the idempotency lookup before a concurrent call committed a
\* booking with p's key for the identical court and range
SameKeyCommitted(p) ==
    /\ rpc[p] \in {"tx", "written"}
    /\ rkey[p] # NoKey
    /\ \E b \in RowsOfKey(rkey[p]) : SameSlot(p, b)

\* C4: when two reserve calls with the same idempotency key run concurrently,
\* one booking is created and both calls return it; neither returns an error
\* (a transaction that ran out of time aside).
ConcurrentSameKeyReturnsBooking ==
    [][\A p \in Procs :
          (SameKeyCommitted(p) /\ rpc'[p] = "done" /\ rres'[p].status # 408)
          => /\ rres'[p].status = 200
             /\ rres'[p].booking \in RowsOfKey(rkey[p])]_vars

\* the reserve calls answered with a newly created booking
Created == {p \in Procs : rpc[p] = "done" /\ rres[p].status = 200 /\ rres[p].error = ""}

\* C5: a reserve call that ends in an error leaves the Booking and Payment
\* rows as they were; the rows are exactly those of the calls that succeeded,
\* each booking with its payment.
ErrorsWriteNothing ==
    /\ [][\A p \in Procs :
            (rpc[p] # "done" /\ rpc'[p] = "done" /\ rres'[p].status # 200)
            => (bookings' = bookings /\ payments' = payments)]_vars
    /\ [](/\ Len(bookings) = Cardinality(Created)
          /\ Len(payments) = Cardinality(Created)
          /\ \A b \in BookingIds : PaymentsOf(b) # {}
          /\ \A i \in PaymentIds : payments[i].bookingId \in BookingIds)

\* a transaction failed after its inserts (timeout or refused commit) beside a
\* committed booking
ErrorsWriteNothingWitness ==
    /\ \E p \in Procs :
        rpc[p] = "done" /\ rres[p].status \in {408, 500}
        /\ rres[p].error \in {"timeout", "write conflict or deadlock"}
    /\ Len(bookings) = 1

\* C6: every committed booking lies within its court's operating hours:
\* startHour >= openHour and startHour + duration <= closeHour.
WithinOperatingHours ==
    \A b \in BookingIds :
        /\ bookings[b].startTime >= openTime(bookings[b].courtId) * 60
        /\ bookings[b].endTime <= closeTime(bookings[b].courtId) * 60

LegalTransitions ==
    {<<"PENDING", "CONFIRMED">>, <<"PENDING", "CANCELLED">>,
     <<"CONFIRMED", "CANCELLED">>, <<"CONFIRMED", "COMPLETED">>}

\* C7: the only status changes of a booking are PENDING to CONFIRMED, PENDING
\* to CANCELLED, CONFIRMED to CANCELLED and CONFIRMED to COMPLETED; CANCELLED
\* and COMPLETED are terminal.
StateMachineLegality ==
    [][\A b \in BookingIds :
          bookings'[b].status # bookings[b].status
          => <<bookings[b].status, bookings'[b].status>> \in LegalTransitions]_vars

\* C8: a booking that is CONFIRMED, CANCELLED or COMPLETED is never set to
\* PENDING.
NeverBackToPending ==
    [][\A b \in BookingIds :
          bookings[b].status # "PENDING" => bookings'[b].status # "PENDING"]_vars

\* C9: the amount of a Payment is fixed when its booking is created; no later
\* operation changes it, whatever the court's price has become.
PriceSnapshot ==
    [][\A i \in PaymentIds : payments'[i].amount = payments[i].amount]_vars

\* the step in which reserve call p commits
CommitStep(p) ==
    /\ rpc[p] = "written"
    /\ rpc'[p] = "done"
    /\ rres'[p].status = 200

\* C10: a successful reserve creates exactly one PENDING Booking owned by the
\* requester and exactly one PENDING Payment, linked in both directions, with
\* amount = pricePerHour x duration x 100 for the price its transaction read;
\* every Booking has exactly one Payment.
ReserveCreatesPair ==
    /\ [][\A p \in Procs :
            /\ (rpc[p] = "tx" /\ rpc'[p] = "written")
               => rbuf'[p].payment.amount =
                      pricePerHour[rreq[p].courtId] * rreq[p].duration * 100
            /\ CommitStep(p)
               => LET b == Len(bookings) + 1
                      i == Len(payments) + 1
                  IN  /\ Len(bookings') = b
                      /\ Len(payments') = i
                      /\ rres'[p].booking = b
                      /\ bookings'[b].status = "PENDING"
                      /\ bookings'[b].userId = UserOf(p)
                      /\ bookings'[b].paymentId = i
                      /\ payments'[i].bookingId = b
                      /\ payments'[i].status = "PENDING"
                      /\ payments'[i].amount = rbuf[p].payment.amount
                      /\ \A k \in BookingIds : bookings'[k] = bookings[k]
                      /\ \A k \in PaymentIds : payments'[k] = payments[k]]_vars
    /\ [](\A b \in BookingIds :
            /\ Cardinality(PaymentsOf(b)) = 1
            /\ bookings[b].paymentId \in PaymentsOf(b))

\* 2 hours at 500 per hour were reserved: the payment is 100000 paisa
ReserveCreatesPairWitness ==
    \E p \in Created :
        LET b == rres[p].booking
        IN  /\ bookings[b].endTime - bookings[b].startTime = 2 * 60
            /\ bookings[b].status = "PENDING"
            /\ bookings[b].userId = UserOf(p)
            /\ payments[bookings[b].paymentId].bookingId = b
            /\ payments[bookings[b].paymentId].amount = 100000
            /\ payments[bookings[b].paymentId].status = "PENDING"

\* C11: in every reachable state no booking is CONFIRMED while its payment is
\* FAILED, and no booking is CANCELLED while its payment is SUCCEEDED.
BookingPaymentConsistent ==
    \A b \in BookingIds :
        PaymentOf(b) # 0 =>
            /\ ~(bookings[b].status = "CONFIRMED"
                 /\ payments[PaymentOf(b)].status = "FAILED")
            /\ ~(bookings[b].status = "CANCELLED"
                 /\ payments[PaymentOf(b)].status = "SUCCEEDED")

\* C12: the payment callback moves a booking to CONFIRMED (and its payment to
\* SUCCEEDED) only when the provider reports the intent named by the request
\* as succeeded; a request carrying status "succeeded" while the provider
\* reports another status never produces CONFIRMED.
ProviderVerifiedConfirmation ==
    [][(cb.pc = "read" /\ cb'.pc = "done") =>
        LET b == cb.booking
            i == cb.paymentIntentId
            reported == i \in 1..Len(intents) /\ intents[i].status = "succeeded"
        IN  /\ (bookings'[b].status = "CONFIRMED" /\ bookings[b].status # "CONFIRMED")
                => (reported /\ payments'[cb.payment].status = "SUCCEEDED")
            /\ (payments'[cb.payment].status = "SUCCEEDED"
                /\ payments[cb.payment].status # "SUCCEEDED")
                => (reported /\ bookings'[b].status = "CONFIRMED")
            /\ (cb.status = "succeeded" /\ ~reported)
                => /\ bookings'[b].status = "CONFIRMED"
                        => bookings[b].status = "CONFIRMED"
                   /\ payments'[cb.payment].status = "SUCCEEDED"
                        => payments[cb.payment].status = "SUCCEEDED"]_vars

\* a callback carrying "succeeded" for an intent the provider still reports
\* as open has committed: the booking and its payment are PENDING
ProviderVerifiedConfirmationWitness ==
    /\ cb.pc = "done"
    /\ cb.response = 200
    /\ cb.status = "succeeded"
    /\ intents[cb.paymentIntentId].status = "open"
    /\ bookings[cb.booking].status = "PENDING"
    /\ payments[cb.payment].status = "PENDING"

\* C13: a user cancellation of booking b at time now is accepted only if the
\* requester owns b, b is PENDING or CONFIRMED, and now + 2 hours < b.start
\* strictly (a booking starting in exactly 2 hours is rejected); a rejected
\* request leaves the booking and its payment unchanged.
CancellationWindow ==
    [][\A b \in BookingIds :
          (cn.pc = "idle" /\ cn'.pc = "read" /\ cn'.booking = b)
          => /\ bookings[b].status \in {"PENDING", "CONFIRMED"}
             /\ now + 2 * 60 < bookings[b].startTime]_vars

\* the cancellation handler has returned
CancelReturns == cn.pc # "idle" /\ cn'.pc = "idle"

\* C14: whenever a user cancellation succeeds and the booking's payment is
\* SUCCEEDED at the moment the booking becomes CANCELLED, the payment ends as
\* REFUNDED, also when a provider success event for the booking is processed
\* concurrently: a cancellation never returns leaving its booking CANCELLED
\* with a SUCCEEDED payment.
RefundMarked ==
    [][CancelReturns =>
          ~(/\ bookings'[cn.booking].status = "CANCELLED"
            /\ cn.payment # 0
            /\ payments'[cn.payment].status = "SUCCEEDED")]_vars

\* a run of the completion sweep
SweepStep == sw.pc = "idle" /\ sw'.pc = "done"

\* the bookings that are CONFIRMED with end earlier than the current time
Expired == {b \in BookingIds : bookings[b].status = "CONFIRMED" /\ bookings[b].endTime < now}

\* C15: one sweep run sets to COMPLETED exactly the bookings that are CONFIRMED
\* with end earlier than the current time, returns their count, and leaves
\* every other booking and every payment unchanged.
SweepEffect ==
    [][SweepStep =>
          /\ Len(bookings') = Len(bookings)
          /\ \A b \in Expired : bookings'[b] = [bookings[b] EXCEPT !.status = "COMPLETED"]
          /\ \A b \in BookingIds \ Expired : bookings'[b] = bookings[b]
          /\ sw'.updatedCount = Cardinality(Expired)
          /\ payments' = payments]_vars

\* a sweep at 15:00 has answered 1, with COMPLETED the booking that ended
\* at 12:00 or 13:00; its payment is still SUCCEEDED
SweepEffectWitness ==
    /\ sw.pc = "done"
    /\ sw.updatedCount = 1
    /\ \E b \in BookingIds :
        /\ bookings[b].status = "COMPLETED"
        /\ bookings[b].endTime < now
        /\ payments[PaymentOf(b)].status = "SUCCEEDED"

\* C16: running the sweep twice in succession with no booking expiring in
\* between gives the same final state as running it once, and the second run
\* reports zero updated bookings.
SweepIdempotent ==
    [][SweepStep =>
          /\ SweptRows(bookings', now') = bookings'
          /\ SweepCount(bookings', now') = 0]_vars

\* a run has answered 0 over a table that holds a booking an earlier run
\* completed
SweepIdempotentWitness ==
    /\ sw.pc = "done"
    /\ sw.updatedCount = 0
    /\ \E b \in BookingIds : bookings[b].status = "COMPLETED"

\* request body req asks for another court or another range than Booking row b
DivergentPayload(req, b) ==
    \/ bookings[b].courtId # req.courtId
    \/ bookings[b].startTime # bookingStartTime(req)
    \/ bookings[b].endTime # bookingEndTime(req)

\* C17: a reserve call whose idempotency key matches an existing booking but
\* whose court, start hour or duration differs from that booking is answered
\* with Conflict (409), and the existing booking is not returned as its result.
DivergentKeyConflict ==
    [][\A p \in Procs :
          (/\ rpc[p] = "idle"
           /\ rpc'[p] = "done"
           /\ rreq'[p] # NoReq
           /\ existingBooking(rkey'[p]) # 0
           /\ DivergentPayload(rreq'[p], existingBooking(rkey'[p])))
          => (rres'[p].status = 409 /\ rres'[p].booking = 0)]_vars

\* C18: every business-rule rejection of reserve reaches the caller with its
\* own category and never as the generic internal failure (500): a missing
\* court gives 404, an overlapping active booking 409, an unapproved venue 400
\* or 403, a range outside operating hours 400, a transaction timeout 408.
ErrorCategories ==
    [][\A p \in Procs :
          /\ (rpc[p] = "tx" /\ rpc'[p] = "done")
             => LET c == rreq[p].courtId
                    st == bookingStartTime(rreq[p])
                    en == bookingEndTime(rreq[p])
                    missing == c \notin Courts
                    conflict == c \in Courts /\ conflictingBooking(bookings, c, st, en)
                    unapproved == c \in Courts /\ ~VenueApproved(c)
                    outside == c \in Courts /\ OutsideOperatingHours(c, st, en)
                IN  /\ (missing \/ conflict \/ unapproved \/ outside)
                        => rres'[p].status # 500
                    /\ missing => rres'[p].status = 404
                    /\ (conflict /\ ~unapproved /\ ~outside) => rres'[p].status = 409
                    /\ (unapproved /\ ~conflict /\ ~outside)
                        => rres'[p].status \in {400, 403}
                    /\ (outside /\ ~conflict /\ ~unapproved) => rres'[p].status = 400
          /\ (rpc[p] = "written" /\ rpc'[p] = "done" /\ rres'[p].error = "timeout")
             => rres'[p].status = 408]_vars

\* C19: reserve rejects with 400 every request whose duration is not an
\* integer in 1..8 (zero, negative, or greater than 8) and writes nothing, so
\* every committed booking has end > start and a length of 1 to 8 whole hours.
DurationBound ==
    \A b \in BookingIds :
        /\ bookings[b].endTime > bookings[b].startTime
        /\ \E h \in 1..8 : bookings[b].endTime - bookings[b].startTime = h * 60

\* [h, h+1) of day d overlaps Booking row b
SlotOverlaps(d, h, b) ==
    /\ d * 24 * 60 + h * 60 < bookings[b].endTime
    /\ bookings[b].startTime < d * 24 * 60 + (h + 1) * 60

\* C20: for an approved venue's court and a date, the availability endpoint
\* returns exactly one slot per hour h from openHour to closeHour - 1, with
\* isPast true iff the date is the current day and h <= currentHour,
\* hasConflict true iff [h, h+1) overlaps some booking of that court with
\* status PENDING, CONFIRMED or COMPLETED, and available = ~isPast /\ ~hasConflict.
AvailabilityGrid ==
    [][(av.pc = "idle" /\ av'.pc = "done" /\ av'.status = 200) =>
        LET c == av'.courtId
            d == av'.date
            slots == av'.timeSlots
        IN  /\ Len(slots) = closeTime(c) - openTime(c)
            /\ \A k \in 1..Len(slots) :
                LET h == openTime(c) + k - 1
                IN  /\ slots[k].hour = h
                    /\ slots[k].isPast
                        <=> (now \div (24 * 60) = d /\ h <= (now \div 60) % 24)
                    /\ slots[k].hasConflict
                        <=> \E b \in BookingIds :
                               /\ bookings[b].courtId = c
                               /\ bookings[b].status \in
                                      {"PENDING", "CONFIRMED", "COMPLETED"}
                               /\ SlotOverlaps(d, h, b)
                    /\ slots[k].available
                        <=> (~slots[k].isPast /\ ~slots[k].hasConflict)]_vars

\* a committed PENDING or CONFIRMED booking overlaps the range on the court
\* that request p has written in its open transaction
OverlapsCommitted(p) ==
    \E b \in BookingIds :
        /\ bookings[b].courtId = rbuf[p].booking.courtId
        /\ bookings[b].status \in ActiveStatuses
        /\ overlaps(bookings[b], rbuf[p].booking)

\* C21: two reserve calls that run concurrently for non-overlapping ranges on
\* one court, or for ranges on different courts, both commit: a call whose
\* range no committed booking overlaps is not failed at its commit because of
\* another call (a timeout of its own aside).
DisjointReservationsCommit ==
    [][\A p \in Procs :
          (/\ rpc[p] = "written"
           /\ rpc'[p] = "done"
           /\ rres'[p].error # "timeout"
           /\ ~UniqueViolation(p)
           /\ ~OverlapsCommitted(p))
          => rres'[p].status = 200]_vars

\* C22: no booking is ever created for a court whose venue is not approved; a
\* reserve against such a court is rejected with Forbidden (403) and writes
\* nothing.
ApprovalPrecondition ==
    /\ [][\A p \in Procs :
            (/\ rpc[p] = "tx"
             /\ rpc'[p] = "done"
             /\ rreq[p].courtId \in Courts
             /\ ~VenueApproved(rreq[p].courtId)
             /\ ~conflictingBooking(bookings, rreq[p].courtId,
                    bookingStartTime(rreq[p]), bookingEndTime(rreq[p])))
            => (rres'[p].status = 403 /\ UNCHANGED <<bookings, payments>>)]_vars
    /\ [](\A b \in BookingIds : VenueApproved(bookings[b].courtId))

\* the transaction body of request p answers (rejects) or buffers its rows
TxBodyStep(p) == rpc[p] = "tx" /\ rpc'[p] \in {"done", "written"}

\* some PENDING or CONFIRMED booking b on the court of request p has
\* b.start < r.end and r.start < b.end for the range r of the request
ActiveOverlap(p) ==
    \E b \in BookingIds :
        /\ bookings[b].courtId = rreq[p].courtId
        /\ bookings[b].status \in {"PENDING", "CONFIRMED"}
        /\ bookings[b].startTime < bookingEndTime(rreq[p])
        /\ bookingStartTime(rreq[p]) < bookings[b].endTime

PreconditionOrder ==
    [][\A p \in Procs :
          /\ (/\ rpc[p] = "idle"
              /\ rpc'[p] # "idle"
              /\ existingBooking(rkey'[p]) # 0
              /\ rreq'[p] # NoReq)
             => /\ rpc'[p] = "done"
                /\ rres'[p].booking = existingBooking(rkey'[p])
          /\ (rpc[p] = "tx" /\ rpc'[p] = "done" /\ rreq[p].courtId \in Courts)
             => LET c == rreq[p].courtId
                    st == bookingStartTime(rreq[p])
                    en == bookingEndTime(rreq[p])
                    conflict == conflictingBooking(bookings, c, st, en)
                    outside == OutsideOperatingHours(c, st, en)
                IN  /\ (conflict /\ (~VenueApproved(c) \/ outside))
                        => rres'[p].status = 409
                    /\ (~conflict /\ ~VenueApproved(c) /\ outside)
                        => rres'[p].status = 403]_vars

\* C25: the payment callback for booking B moves B to CONFIRMED only when the
\* provider intent it verifies is the intent that was created for B; a
\* succeeded intent created for another booking does not confirm B.
ConfirmationBoundToOwnIntent ==
    [][(/\ cb.pc = "read"
        /\ cb'.pc = "done"
        /\ bookings[cb.booking].status # "CONFIRMED"
        /\ bookings'[cb.booking].status = "CONFIRMED")
       => intents[cb.paymentIntentId].bookingId = cb.booking]_vars

\* C26: once a Payment is SUCCEEDED the only status it can take afterwards is
\* REFUNDED: no step sets a SUCCEEDED payment back to PENDING or FAILED.
PaymentMonotone ==
    [][\A i \in PaymentIds :
          payments[i].status = "SUCCEEDED"
          => payments'[i].status \in {"SUCCEEDED", "REFUNDED"}]_vars

\* C27: under fair scheduling of provider events and of the sweep, each
\* PENDING booking eventually becomes CONFIRMED or CANCELLED.
PendingEventuallyLeaves ==
    \A b \in Procs :
        (b <= Len(bookings) /\ bookings[b].status = "PENDING")
        ~> (b <= Len(bookings) /\ bookings[b].status \in {"CONFIRMED", "CANCELLED"})

\* the availability grid of the current state reports hasConflict = false for
\* every hour of the range that request body req asks for, all of them hours
\* of the grid of the request's date
GridShowsNoConflict(req) ==
    /\ req.courtId \in Courts
    /\ req.duration >= 1
    /\ req.startTime >= openTime(req.courtId)
    /\ req.startTime + req.duration <= closeTime(req.courtId)
    /\ \A h \in req.startTime..(req.startTime + req.duration - 1) :
          ~timeSlot(req.courtId, dateOf(req), h).hasConflict

\* C28: in one store state, for a court and a range [h, h+d) within one
\* calendar day, if the availability endpoint reports hasConflict = false for
\* every hour h..h+d-1, a reserve for [h, h+d) evaluated against that state
\* does not fail with Conflict (409).
AvailabilityIsConservative ==
    [][\A p \in Procs :
          (rpc[p] = "tx" /\ rpc'[p] \in {"done", "written"}
           /\ GridShowsNoConflict(rreq[p]))
          => ~(rpc'[p] = "done" /\ rres'[p].status = 409)]_vars

\* C29: a reserve call by requester B whose idempotency key equals the key of
\* a booking created by a different requester A does not return A's booking
\* to B.
KeysDoNotCrossUsers ==
    \A p \in Procs :
        (rpc[p] = "done" /\ rres[p].booking # 0)
        => bookings[rres[p].booking].userId = UserOf(p)

\* C30: reserve never creates a booking whose start is earlier than or equal
\* to the current hour of the current day (a slot the availability grid marks
\* isPast).
NoReservationInThePast ==
    [][\A p \in Procs :
          CommitStep(p)
          => LET b == bookings'[Len(bookings')]
             IN  ~(/\ b.startTime \div (24 * 60) = now \div (24 * 60)
                   /\ getHours(b.startTime) <= getHours(now))]_vars

====
